---- MODULE Spec2Model ----
(***************************************************************************)
(* The play-log pipeline of the four radio dashboards                      *)
(*   gemprostreamlit.py, wmradiostreamlitv2claude.py,                     *)
(*   strealittimeline.py, streamlit_timeline.py                            *)
(* Load -> clean -> filter -> group/sort -> bucket -> paginate.            *)
(*                                                                         *)
(* Text is a sequence of one-character strings, so that str.contains is a  *)
(* real substring search and sorted() a real lexicographic order.  A       *)
(* timestamp is the number of hours since 2024-01-01T00:00, a Monday; a    *)
(* date is the number of days since 2024-01-01.                            *)
(***************************************************************************)
EXTENDS Integers, Sequences, FiniteSets, TLC

VARIABLES
    app,              \* which dashboard script runs
    csv,              \* the rows of the CSV source
    phase,            \* "start" | "ready" | "nodata" | "error"
    df,               \* the module-level dataframe (the log)
    loaded_count,     \* len(df) as reported by st.success (wmradio)
    date_range,       \* the date_input widget: <<start, end>> or <<start>>
    selected_artist,  \* the artist selectbox
    selected_song,    \* the song selectbox
    filter_type,      \* the timeline dashboards' radio: "Artist" | "Song"
    selected_items,   \* the timeline dashboards' multiselect
    filtered_df,      \* the filtered subset
    chart,            \* which top chart was computed last
    top_n,            \* the n of that chart
    top,              \* its rows <<[key, plays]>>
    time_granularity, \* "Daily" | "Weekly" | "Monthly" | "none"
    time_df,          \* <<[date, plays]>>
    selected_trend_artists, \* the "Select Artists to Compare" multiselect
    artist_time_df,   \* <<[artist, timestamp, plays]>>
    recent_plays,     \* the most recent plays first: the sequence that is paginated
    recent_limit,     \* the .head(n) applied to recent_plays; 0 for none
    plays_per_page,   \* the slider
    page,             \* 0-indexed page
    total_pages,
    current_plays,    \* the slice shown
    download          \* the CSV made by "Download Filtered Data"

vars == <<app, csv, phase, df, loaded_count, date_range, selected_artist,
          selected_song, filter_type, selected_items, filtered_df, chart,
          top_n, top, time_granularity, time_df, selected_trend_artists,
          artist_time_df, recent_plays, recent_limit, plays_per_page, page,
          total_pages, current_plays, download>>

sessionVars == <<app, csv, phase, df, loaded_count, date_range,
                 selected_artist, selected_song, filter_type, selected_items,
                 filtered_df>>
topVars == <<chart, top_n, top>>
timeVars == <<time_granularity, time_df, selected_trend_artists, artist_time_df>>
pageVars == <<recent_plays, recent_limit, plays_per_page, page, total_pages, current_plays>>
exportVars == <<download>>

(***************************************************************************)
(* Bounds of the model                                                     *)
(***************************************************************************)
MaxRows == 3

(***************************************************************************)
(* Cell values                                                             *)
(***************************************************************************)
\* a missing cell as pd.read_csv returns it; no text has a 3-character element
NaN == <<"NaN">>
\* pd.to_datetime of a missing cell
NaT == -1

\* code-point order of the characters the sample texts use
Alphabet == <<" ", "A", "B", "M", "N", "P", "R", "S", "T", "U", "W", "X", "Y",
              "a", "d", "e", "g", "h", "i", "k", "m", "n", "o", "p", "r", "s",
              "t", "w">>

Ord(c) == CHOOSE i \in 1..Len(Alphabet) : Alphabet[i] = c

\* Python's str < str: lexicographic by code point, a proper prefix first
StrLess(a, b) ==
    \E i \in 1..(Len(b)) :
        /\ \A j \in 1..(i - 1) : j <= Len(a) /\ a[j] = b[j]
        /\ \/ i = Len(a) + 1
           \/ i <= Len(a) /\ Ord(a[i]) < Ord(b[i])

\* Series.str.contains(pat) for a pattern without regex metacharacters:
\* a case-sensitive substring search
StrContains(s, pat) ==
    \E i \in 1..(Len(s) - Len(pat) + 1) : SubSeq(s, i, i + Len(pat) - 1) = pat

NetworkMarker == <<"T","h","e"," ","W","M","W"," ","R","a","d","i","o"," ",
                   "N","e","t","w","o","r","k">>
PromoMarker == <<"P","r","o","m","o">>
UnknownArtist == <<"U","n","k","n","o","w","n"," ","A","r","t","i","s","t">>
UnknownSong == <<"U","n","k","n","o","w","n"," ","S","o","n","g">>

\* Series.fillna(value)
FillNa(v, value) == IF v = NaN THEN value ELSE v

(***************************************************************************)
(* Time: .dt.date, .dt.hour                                                *)
(***************************************************************************)
DateOf(ts) == IF ts = NaT THEN NaT ELSE ts \div 24
HourOf(ts) == IF ts = NaT THEN NaT ELSE ts % 24

\* .dt.day_name(): day 0 is Monday 2024-01-01
DayNames == <<"Monday", "Tuesday", "Wednesday", "Thursday", "Friday", "Saturday",
              "Sunday">>
DayNameOf(ts) == IF ts = NaT THEN "NaN" ELSE DayNames[(DateOf(ts) % 7) + 1]

\* the months of 2024, the year the model's timestamps lie in
MonthLengths == <<31, 29, 31, 30, 31, 30, 31, 31, 30, 31, 30, 31>>
MonthNames == <<"January", "February", "March", "April", "May", "June", "July",
                "August", "September", "October", "November", "December">>
\* the number of days of 2024 before each month
MonthStarts == <<0, 31, 60, 91, 121, 152, 182, 213, 244, 274, 305, 335>>
DaysBefore(m) == MonthStarts[m]
\* the month (1..12) a date lies in
MonthOfDate(d) == CHOOSE m \in 1..12 : DaysBefore(m) <= d /\ d < DaysBefore(m) + MonthLengths[m]
\* .dt.month_name()
MonthNameOf(ts) == IF ts = NaT THEN "NaN" ELSE MonthNames[MonthOfDate(DateOf(ts))]

(***************************************************************************)
(* The CSV source.  A timestamp cell is ISO text (kind "iso", its instant  *)
(* in v), empty (kind "nan") or text that is no date (kind "bad").         *)
(***************************************************************************)
Iso(h) == [kind |-> "iso", v |-> h]
EmptyCell == [kind |-> "nan", v |-> 0]
BadCell == [kind |-> "bad", v |-> 0]

ArtistA == <<"A">>
ArtistB == <<"B">>
SongX == <<"X">>
SongY == <<"Y">>
Art1 == <<"a","r","t">>
LowerNetwork == <<"t","h","e"," ","W","M","W"," ","R","a","d","i","o"," ",
                  "N","e","t","w","o","r","k">>
LowerPromo == <<"p","r","o","m","o">>

\* Mon 2024-01-01 10:00, Wed 2024-01-03 09:00
SampleRows ==
    { [timestamp |-> Iso(10), artist |-> ArtistA, song |-> SongX, artwork_large |-> Art1],
      [timestamp |-> Iso(10), artist |-> ArtistB, song |-> SongY, artwork_large |-> NaN],
      [timestamp |-> Iso(57), artist |-> ArtistA, song |-> SongY, artwork_large |-> Art1],
      [timestamp |-> Iso(57), artist |-> NetworkMarker, song |-> SongX, artwork_large |-> Art1],
      [timestamp |-> Iso(10), artist |-> ArtistA, song |-> PromoMarker \o <<" ", "X">>,
       artwork_large |-> Art1],
      [timestamp |-> EmptyCell, artist |-> ArtistB, song |-> SongX, artwork_large |-> Art1],
      [timestamp |-> Iso(57), artist |-> NaN, song |-> NaN, artwork_large |-> Art1],
      [timestamp |-> Iso(10), artist |-> LowerNetwork, song |-> LowerPromo,
       artwork_large |-> Art1],
      [timestamp |-> BadCell, artist |-> ArtistA, song |-> SongX, artwork_large |-> Art1] }

\* row i of the file gets pick_id i
WithPickIds(rows) ==
    [i \in 1..Len(rows) |->
        [pick_id |-> i, timestamp |-> rows[i].timestamp, artist |-> rows[i].artist,
         song |-> rows[i].song, artwork_large |-> rows[i].artwork_large]]

SeqsUpTo(S, n) == UNION { [1..k -> S] : k \in 0..n }

CsvSources == { WithPickIds(rows) : rows \in SeqsUpTo(SampleRows, MaxRows) }

(***************************************************************************)
(* Sequence helpers                                                        *)
(***************************************************************************)
RECURSIVE SelectSeqP(_, _)
\* df[mask]: the rows at the positions in keep, in their order
SelectSeqP(s, keep) ==
    IF s = <<>> THEN <<>>
    ELSE LET rest == SelectSeqP(Tail(s), { i - 1 : i \in keep \ {1} })
         IN  IF 1 \in keep THEN <<Head(s)>> \o rest ELSE rest

Range(s) == { s[i] : i \in 1..Len(s) }

\* sorted(values): ascending by StrLess
RECURSIVE SortedStrings(_)
SortedStrings(S) ==
    IF S = {} THEN <<>>
    ELSE LET m == CHOOSE x \in S : \A y \in S \ {x} : StrLess(x, y)
         IN  <<m>> \o SortedStrings(S \ {m})

(***************************************************************************)
(* Load                                                                    *)
(***************************************************************************)
\* pd.to_datetime(column) raises when a cell is no date
ParseFails(src) == \E i \in 1..Len(src) : src[i].timestamp.kind = "bad"
\* pd.to_datetime of one cell: an empty cell becomes NaT
ToDatetime(cell) == IF cell.kind = "iso" THEN cell.v ELSE NaT

\* df = df[~df['artist'].str.contains('The WMW Radio Network')]
\* df = df[~df['song'].str.contains('Promo')]
ExcludeNetworkAndPromo(rows) ==
    LET noNet == SelectSeqP(rows, { i \in 1..Len(rows) :
                     ~StrContains(rows[i].artist, NetworkMarker) })
    IN  SelectSeqP(noNet, { i \in 1..Len(noNet) :
                     ~StrContains(noNet[i].song, PromoMarker) })

\* gemprostreamlit.load_data: date column, both placeholders, both exclusions
GemproLoadData(src) ==
    ExcludeNetworkAndPromo(
        [i \in 1..Len(src) |->
            [pick_id |-> src[i].pick_id,
             timestamp |-> ToDatetime(src[i].timestamp),
             date |-> DateOf(ToDatetime(src[i].timestamp)),
             artist |-> FillNa(src[i].artist, UnknownArtist),
             song |-> FillNa(src[i].song, UnknownSong),
             artwork_large |-> src[i].artwork_large]])

\* wmradiostreamlitv2claude.load_data: artist placeholder and the derived
\* columns; song is not filled and nothing is excluded here
WmradioLoadData(src) ==
    [i \in 1..Len(src) |->
        [pick_id |-> src[i].pick_id,
         timestamp |-> ToDatetime(src[i].timestamp),
         artist |-> FillNa(src[i].artist, UnknownArtist),
         song |-> src[i].song,
         artwork_large |-> src[i].artwork_large,
         date |-> DateOf(ToDatetime(src[i].timestamp)),
         hour |-> HourOf(ToDatetime(src[i].timestamp)),
         day_of_week |-> DayNameOf(ToDatetime(src[i].timestamp)),
         month |-> MonthNameOf(ToDatetime(src[i].timestamp)),
         year |-> IF src[i].timestamp.kind = "iso" THEN 2024 ELSE NaT]]

\* wmradiostreamlitv2claude module level, after load_data: both
\* placeholders, then both exclusions
WmradioClean(rows) ==
    ExcludeNetworkAndPromo(
        [i \in 1..Len(rows) |->
            [rows[i] EXCEPT !.artist = FillNa(@, UnknownArtist),
                            !.song = FillNa(@, UnknownSong)]])

\* strealittimeline.load_and_prepare_data and streamlit_timeline's module
\* level: the artist placeholder only
TimelineLoadData(src) ==
    [i \in 1..Len(src) |->
        [pick_id |-> src[i].pick_id,
         timestamp |-> ToDatetime(src[i].timestamp),
         artist |-> FillNa(src[i].artist, UnknownArtist),
         song |-> src[i].song,
         artwork_large |-> src[i].artwork_large]]

(***************************************************************************)
(* Sidebar filters of gemprostreamlit.py and wmradiostreamlitv2claude.py   *)
(***************************************************************************)
Gempro == "gemprostreamlit"
Wmradio == "wmradiostreamlitv2claude"
Strealit == "strealittimeline"
Timeline == "streamlit_timeline"
Apps == {Gempro, Wmradio, Strealit, Timeline}

\* the first option of a selectbox: "All", 'All Artists', 'All Songs'
AllOption == <<"All">>

\* the dates of the rows that have one
Dates(rows) == { rows[i].date : i \in 1..Len(rows) } \ {NaT}
MinOf(S) == CHOOSE x \in S : \A y \in S : x <= y
MaxOf(S) == CHOOSE x \in S : \A y \in S : x >= y

\* DateFilter with the end date left out of the range
DateFilterEndExclusive(rows, r) ==
    IF Len(r) = 2
    THEN SelectSeqP(rows, { i \in 1..Len(rows) :
             /\ rows[i].date # NaT
             /\ rows[i].date >= r[1]
             /\ rows[i].date < r[2] })
    ELSE rows

\* df[(df['date'] >= start_date) & (df['date'] <= end_date)]; a comparison
\* with a missing date is False.  wmradio: a range of one date filters nothing
DateFilter(rows, r) ==
    IF Len(r) = 2
    THEN SelectSeqP(rows, { i \in 1..Len(rows) :
             /\ rows[i].date # NaT
             /\ rows[i].date >= r[1]
             /\ rows[i].date <= r[2] })
    ELSE rows

\* filtered_df[filtered_df['artist'] == selected_artist], unless "All"
ArtistFilter(rows, a) ==
    IF a # AllOption
    THEN SelectSeqP(rows, { i \in 1..Len(rows) : rows[i].artist = a })
    ELSE rows

\* filtered_df[filtered_df['song'] == selected_song], unless "All"
SongFilter(rows, sg) ==
    IF sg # AllOption
    THEN SelectSeqP(rows, { i \in 1..Len(rows) : rows[i].song = sg })
    ELSE rows

\* the three filters in the order the scripts apply them
FilteredDf(rows, r, a, sg) == SongFilter(ArtistFilter(DateFilter(rows, r), a), sg)

\* the artists of the whole log, whatever the date range
ArtistOptionsOfLog(ap, rows, r) == { rows[i].artist : i \in 1..Len(rows) }

\* the artists offered: gempro takes them from df, wmradio from the
\* date-filtered rows
ArtistOptions(ap, rows, r) ==
    LET from == IF ap = Gempro THEN rows ELSE DateFilter(rows, r)
    IN  { from[i].artist : i \in 1..Len(from) }

\* the songs offered: gempro takes them from df (of the artist, if one is
\* selected), wmradio from the date-and-artist-filtered rows
SongOptions(ap, rows, r, a) ==
    LET from == IF ap = Gempro THEN ArtistFilter(rows, a)
                ELSE ArtistFilter(DateFilter(rows, r), a)
    IN  { from[i].song : i \in 1..Len(from) }

\* a selectbox after a rerun: the selection stays while it is still offered,
\* otherwise the widget falls back to its first option
Reselect(old, options) == IF old \in options THEN old ELSE AllOption

(***************************************************************************)
(* The timeline dashboards' filter                                         *)
(***************************************************************************)
Column(rows, t) ==
    IF t = "Artist" THEN { rows[i].artist : i \in 1..Len(rows) }
    ELSE { rows[i].song : i \in 1..Len(rows) }

\* sorted(df['song'].unique()) compares a missing song (a float) with text
SortedFails(rows, t) == NaN \in Column(rows, t) /\ Cardinality(Column(rows, t)) > 1

\* default=[df['artist'].iloc[0]] / default=[df['song'].iloc[0]]
DefaultItems(rows, t) == IF t = "Artist" THEN {rows[1].artist} ELSE {rows[1].song}

\* df[df['artist'].isin(selected)] / df[df['song'].isin(selected)];
\* streamlit_timeline.py then assigns the date and hour columns to the
\* subset when it is not empty
TimelineFilter(ap, rows, t, sel) ==
    LET sub == SelectSeqP(rows, { i \in 1..Len(rows) :
                   IF t = "Artist" THEN rows[i].artist \in sel
                   ELSE rows[i].song \in sel })
    IN  IF ap = Timeline
        THEN [i \in 1..Len(sub) |->
                [pick_id |-> sub[i].pick_id, timestamp |-> sub[i].timestamp,
                 artist |-> sub[i].artist, song |-> sub[i].song,
                 artwork_large |-> sub[i].artwork_large,
                 date |-> DateOf(sub[i].timestamp),
                 hour |-> HourOf(sub[i].timestamp)]]
        ELSE sub

(***************************************************************************)
(* A dashboard session: the first run of the script, then one rerun of the *)
(* whole script per widget change                                          *)
(***************************************************************************)
NoCharts ==
    /\ chart = "none" /\ top_n = 0 /\ top = <<>>
    /\ time_granularity = "none" /\ time_df = <<>>
    /\ selected_trend_artists = {} /\ artist_time_df = <<>>
    /\ recent_plays = <<>> /\ recent_limit = 0 /\ plays_per_page = 0 /\ page = 0
    /\ total_pages = 0 /\ current_plays = <<>>
    /\ download = [header |-> <<>>, rows |-> <<>>]

Init ==
    /\ app \in Apps
    /\ csv \in CsvSources
    /\ phase = "start"
    /\ df = <<>>
    /\ loaded_count = 0
    /\ date_range = <<>>
    /\ selected_artist = AllOption
    /\ selected_song = AllOption
    /\ filter_type = "Artist"
    /\ selected_items = {}
    /\ filtered_df = <<>>
    /\ NoCharts

\* the script stops: an uncaught exception, or the "No data to display" branch
Stop(ph, rows) ==
    /\ phase' = ph
    /\ df' = rows
    /\ UNCHANGED <<app, csv, date_range, selected_artist,
                   selected_song, filter_type, selected_items, filtered_df>>

\* the widgets' values after a run of gempro or wmradio
Show(rows, r, a, sg) ==
    /\ phase' = "ready"
    /\ df' = rows
    /\ date_range' = r
    /\ selected_artist' = a
    /\ selected_song' = sg
    /\ filtered_df' = FilteredDf(rows, r, a, sg)
    /\ UNCHANGED <<app, csv, filter_type, selected_items>>

\* gemprostreamlit.py, first run: load_data raises on a bad timestamp;
\* date_input needs a minimum and a maximum date
RunGempro ==
    /\ app = Gempro
    /\ phase = "start"
    /\ LET d == GemproLoadData(csv)
       IN  IF ParseFails(csv) THEN Stop("error", df)
           ELSE IF Dates(d) = {} THEN Stop("error", d)
           ELSE Show(d, <<MinOf(Dates(d)), MaxOf(Dates(d))>>, AllOption, AllOption)
    /\ UNCHANGED <<loaded_count, topVars, timeVars, pageVars, exportVars>>

\* wmradiostreamlitv2claude.py, first run: load_data returns None on any
\* exception; the success message counts the rows before the exclusions;
\* with no timestamp in the cleaned df, min_date and max_date are NaT and
\* the run ends in an exception at the date range
RunWmradio ==
    /\ app = Wmradio
    /\ phase = "start"
    /\ LET d == WmradioLoadData(csv)
           c == WmradioClean(d)
       IN  IF ParseFails(csv) THEN Stop("nodata", df) /\ UNCHANGED loaded_count
           ELSE IF d = <<>> THEN Stop("nodata", d) /\ UNCHANGED loaded_count
           ELSE IF Dates(c) = {} THEN Stop("error", c) /\ loaded_count' = Len(d)
           ELSE /\ Show(c, <<MinOf(Dates(c)), MaxOf(Dates(c))>>, AllOption, AllOption)
                /\ loaded_count' = Len(d)
    /\ UNCHANGED <<topVars, timeVars, pageVars, exportVars>>

\* the date ranges date_input can return between min_date and max_date; a
\* range of one date while the user picks the second
DateRanges(rows) ==
    LET days == MinOf(Dates(rows))..MaxOf(Dates(rows))
    IN  { <<s, e>> : s \in days, e \in days } \cup { <<s>> : s \in days }

\* the user changes the date range; gempro unpacks it into two dates
SetDateRange ==
    /\ app \in {Gempro, Wmradio}
    /\ phase = "ready"
    /\ \E r \in DateRanges(df) :
          /\ Len(r) = 2 => r[1] <= r[2]
          /\ IF app = Gempro /\ Len(r) # 2 THEN Stop("error", df)
             ELSE LET a == Reselect(selected_artist, ArtistOptions(app, df, r))
                  IN  Show(df, r, a, Reselect(selected_song, SongOptions(app, df, r, a)))
    /\ UNCHANGED <<loaded_count, topVars, timeVars, pageVars, exportVars>>

\* the user picks an artist among those offered
SelectArtist ==
    /\ app \in {Gempro, Wmradio}
    /\ phase = "ready"
    /\ \E a \in {AllOption} \cup ArtistOptions(app, df, date_range) :
           Show(df, date_range, a,
                Reselect(selected_song, SongOptions(app, df, date_range, a)))
    /\ UNCHANGED <<loaded_count, topVars, timeVars, pageVars, exportVars>>

\* the user picks a song among those offered
SelectSong ==
    /\ app \in {Gempro, Wmradio}
    /\ phase = "ready"
    /\ \E sg \in {AllOption} \cup SongOptions(app, df, date_range, selected_artist) :
           Show(df, date_range, selected_artist, sg)
    /\ UNCHANGED <<loaded_count, topVars, timeVars, pageVars, exportVars>>

\* the widgets' values after a run of a timeline dashboard
ShowTimeline(rows, t, sel) ==
    /\ phase' = "ready"
    /\ df' = rows
    /\ filter_type' = t
    /\ selected_items' = sel
    /\ filtered_df' = TimelineFilter(app, rows, t, sel)
    /\ UNCHANGED <<app, csv, date_range, selected_artist, selected_song>>

\* strealittimeline.py / streamlit_timeline.py, first run: pd.to_datetime
\* raises on a bad timestamp, iloc[0] on an empty frame
RunTimeline ==
    /\ app \in {Strealit, Timeline}
    /\ phase = "start"
    /\ LET d == TimelineLoadData(csv)
       IN  IF ParseFails(csv) THEN Stop("error", df)
           ELSE IF d = <<>> THEN Stop("error", d)
           ELSE ShowTimeline(d, "Artist", DefaultItems(d, "Artist"))
    /\ UNCHANGED <<loaded_count, topVars, timeVars, pageVars, exportVars>>

\* the user switches the radio between "Artist" and "Song"
SetFilterType ==
    /\ app \in {Strealit, Timeline}
    /\ phase = "ready"
    /\ \E t \in {"Artist", "Song"} :
          IF SortedFails(df, t) THEN Stop("error", df)
          ELSE ShowTimeline(df, t, DefaultItems(df, t))
    /\ UNCHANGED <<loaded_count, topVars, timeVars, pageVars, exportVars>>

\* the user changes the multiselect
SelectItems ==
    /\ app \in {Strealit, Timeline}
    /\ phase = "ready"
    /\ \E sel \in SUBSET Column(df, filter_type) :
          ShowTimeline(df, filter_type, sel)
    /\ UNCHANGED <<loaded_count, topVars, timeVars, pageVars, exportVars>>

Next ==
    \/ RunGempro
    \/ RunWmradio
    \/ RunTimeline
    \/ SetDateRange
    \/ SelectArtist
    \/ SelectSong
    \/ SetFilterType
    \/ SelectItems

Spec == Init /\ [][Next]_vars

(***************************************************************************)
(* Claims about Load and Filter, checked under Spec                        *)
(***************************************************************************)
\* C1: in every dashboard, once the log is loaded, no row whose artist
\* contains "The WMW Radio Network" and no row whose song contains "Promo" is
\* in the log or in a filtered subset.
C1_NoNetworkOrPromoAnywhere ==
    phase = "ready" =>
        /\ \A i \in 1..Len(df) :
              /\ ~StrContains(df[i].artist, NetworkMarker)
              /\ ~StrContains(df[i].song, PromoMarker)
        /\ \A i \in 1..Len(filtered_df) :
              /\ ~StrContains(filtered_df[i].artist, NetworkMarker)
              /\ ~StrContains(filtered_df[i].song, PromoMarker)

\* C2: every row retained in the log after Load has a timestamp, an artist
\* and a song: none of the three is missing.
C2_RetainedRowsNonNull ==
    phase = "ready" =>
        \A i \in 1..Len(df) :
            /\ df[i].timestamp # NaT
            /\ df[i].artist # NaN
            /\ df[i].song # NaN

\* the j-th smallest element of a set of positions
NthOf(S, j) == CHOOSE i \in S : Cardinality({ k \in S : k < i }) = j - 1

\* the positions of the log that satisfy the date, artist and song conditions
C3_Matching ==
    { i \in 1..Len(df) :
        /\ df[i].timestamp # NaT
        /\ date_range[1] <= DateOf(df[i].timestamp)
        /\ DateOf(df[i].timestamp) <= date_range[2]
        /\ selected_artist = AllOption \/ df[i].artist = selected_artist
        /\ selected_song = AllOption \/ df[i].song = selected_song }

\* C3: with a start and an end date, Filter returns exactly the rows of the
\* log with start <= date <= end, the selected artist (unless "All") and the
\* selected song (unless "All"), in the order they have in the log.
C3_FilterExact ==
    (app \in {Gempro, Wmradio} /\ phase = "ready" /\ Len(date_range) = 2) =>
        /\ Len(filtered_df) = Cardinality(C3_Matching)
        /\ \A j \in 1..Len(filtered_df) :
              filtered_df[j] = df[NthOf(C3_Matching, j)]

\* C3 witness: a date range, an artist and a song are selected, and the
\* filter kept a row, dropped a row before it and dropped a row for its date
C3_Witness ==
    /\ app \in {Gempro, Wmradio} /\ phase = "ready" /\ Len(date_range) = 2
    /\ selected_artist # AllOption
    /\ selected_song # AllOption
    /\ Len(filtered_df) >= 1
    /\ filtered_df[1] # df[1]
    /\ \E i \in 1..Len(df) :
          df[i].date # NaT /\ (df[i].date < date_range[1] \/ df[i].date > date_range[2])

(***************************************************************************)
(* TopN: groupby(keys).size()/.count(), then sort_values(...).head(n) or   *)
(* nlargest(n)                                                             *)
(***************************************************************************)
MaxTopN == 2
\* .head(10) of wmradio's top_songs and top_artists
HeadTen == 10
\* .nlargest(5) of gempro's top_artists and top_songs
NLargestFive == 5

\* the key of a row under the group-by columns
KeyOf(row, keys) == [k \in 1..Len(keys) |-> row[keys[k]]]

\* tuple order of the group keys: the first differing column decides
KeyLess(a, b) ==
    \E k \in 1..Len(a) :
        /\ \A j \in 1..(k - 1) : a[j] = b[j]
        /\ StrLess(a[k], b[k])

RECURSIVE SortedKeys(_)
\* the group keys in ascending order (groupby sorts its keys)
SortedKeys(S) ==
    IF S = {} THEN <<>>
    ELSE LET m == CHOOSE x \in S : \A y \in S \ {x} : KeyLess(x, y)
         IN  <<m>> \o SortedKeys(S \ {m})

\* the keys groupby forms: a row with a missing value in a key column
\* belongs to no group (dropna=True)
GroupKeys(rows, keys) ==
    { KeyOf(rows[i], keys) : i \in 1..Len(rows) } \
        { k \in { KeyOf(rows[i], keys) : i \in 1..Len(rows) } :
            \E j \in 1..Len(keys) : k[j] = NaN }

\* df.groupby(keys).size().reset_index(name='plays'), and
\* groupby(keys)["pick_id"].count() (pick_id is never missing in the model)
GroupBySize(rows, keys) ==
    LET ks == SortedKeys(GroupKeys(rows, keys))
    IN  [g \in 1..Len(ks) |->
            [key |-> ks[g],
             plays |-> Cardinality({ i \in 1..Len(rows) : KeyOf(rows[i], keys) = ks[g] })]]

\* the orders a sort by plays, descending, can leave the groups in: the
\* default sort kind is not stable, so groups with equal plays come in any order
SortValuesDesc(groups) ==
    { [i \in 1..Len(groups) |-> groups[f[i]]] : f \in
        { f \in Permutations(1..Len(groups)) :
            \A i, j \in 1..Len(groups) :
                i < j => groups[f[i]].plays >= groups[f[j]].plays } }

\* the one order a stable sort by plays, descending, gives
StableSortDesc(groups) ==
    LET f == CHOOSE f \in Permutations(1..Len(groups)) :
                 \A i, j \in 1..Len(groups) :
                     i < j => \/ groups[f[i]].plays > groups[f[j]].plays
                              \/ /\ groups[f[i]].plays = groups[f[j]].plays
                                 /\ f[i] < f[j]
    IN  [i \in 1..Len(groups) |-> groups[f[i]]]

\* DataFrame.head(n)
HeadN(sq, n) == SubSeq(sq, 1, IF n < Len(sq) THEN n ELSE Len(sq))

\* sort_values('plays', ascending=False).head(n)
SortHead(groups, n) == { HeadN(o, n) : o \in SortValuesDesc(groups) }

\* Series.nlargest(n): with n >= len it is sort_values(ascending=False).head(n);
\* otherwise the n largest by a stable sort, first occurrences kept
NLargest(groups, n) ==
    IF n >= Len(groups) THEN SortHead(groups, n)
    ELSE {HeadN(StableSortDesc(groups), n)}

\* the key columns of the two charts
ArtistKeys == <<"artist">>
SongKeys(ap) == IF ap = Gempro THEN <<"artist", "song", "artwork_large">>
                ELSE <<"song", "artist">>

\* the results a top chart of the dashboard can show
TopChart(ap, rows, keys, n) ==
    IF ap = Gempro THEN NLargest(GroupBySize(rows, keys), n)
    ELSE SortHead(GroupBySize(rows, keys), n)

\* the n the model applies: the scripts' own 10 and 5, and smaller ones so
\* that the cut falls inside a log of few rows
TopNs(ap) == (1..MaxTopN) \cup {IF ap = Gempro THEN NLargestFive ELSE HeadTen}

TopRows ==
    { [timestamp |-> Iso(10), artist |-> a, song |-> sg, artwork_large |-> w] :
        a \in {ArtistA, ArtistB}, sg \in {SongX, SongY}, w \in {Art1, NaN} }

TopSources == { WithPickIds(rows) : rows \in SeqsUpTo(TopRows, MaxRows) }

\* the dashboard as its first run leaves it: the whole log is shown
InitTop ==
    /\ app \in {Gempro, Wmradio}
    /\ csv \in TopSources
    /\ csv # <<>>
    /\ phase = "ready"
    /\ df = (IF app = Gempro THEN GemproLoadData(csv)
             ELSE WmradioClean(WmradioLoadData(csv)))
    /\ loaded_count = (IF app = Gempro THEN 0 ELSE Len(csv))
    /\ date_range = <<MinOf(Dates(df)), MaxOf(Dates(df))>>
    /\ selected_artist = AllOption
    /\ selected_song = AllOption
    /\ filter_type = "Artist"
    /\ selected_items = {}
    /\ filtered_df = FilteredDf(df, date_range, selected_artist, selected_song)
    /\ NoCharts

\* top_artists
TopArtists ==
    /\ phase = "ready"
    /\ \E n \in TopNs(app) :
       \E t \in TopChart(app, filtered_df, ArtistKeys, n) :
          /\ chart' = "top_artists"
          /\ top_n' = n
          /\ top' = t
    /\ UNCHANGED <<sessionVars, timeVars, pageVars, exportVars>>

\* top_songs
TopSongs ==
    /\ phase = "ready"
    /\ \E n \in TopNs(app) :
       \E t \in TopChart(app, filtered_df, SongKeys(app), n) :
          /\ chart' = "top_songs"
          /\ top_n' = n
          /\ top' = t
    /\ UNCHANGED <<sessionVars, timeVars, pageVars, exportVars>>

NextTop == TopArtists \/ TopSongs

SpecTop == InitTop /\ [][NextTop]_vars

(***************************************************************************)
(* Trends Over Time: groupby(pd.Grouper(key='timestamp', freq=...)).size() *)
(***************************************************************************)
\* .head(5) of top_trend_artists
TrendHeadFive == 5

\* freq='D': a bucket is a day, labelled with its midnight
DayLabel(ts) == DateOf(ts) * 24
\* the week's first day, Monday
WeekStartLabel(ts) == (DateOf(ts) - (DateOf(ts) % 7)) * 24
\* freq='W' is W-SUN, closed and labelled on the right: a bucket is a week
\* Monday..Sunday, labelled with the midnight of its Sunday
WeekLabel(ts) == (DateOf(ts) + (6 - (DateOf(ts) % 7))) * 24
\* freq='M' is month end, closed and labelled on the right: a bucket is a
\* calendar month, labelled with the midnight of its last day
MonthLabel(ts) ==
    (DaysBefore(MonthOfDate(DateOf(ts))) + MonthLengths[MonthOfDate(DateOf(ts))] - 1) * 24

BucketLabel(g, ts) ==
    IF g = "Daily" THEN DayLabel(ts)
    ELSE IF g = "Weekly" THEN WeekLabel(ts)
    ELSE MonthLabel(ts)

\* the label of the bucket after the one labelled l
NextLabel(g, l) ==
    IF g = "Daily" THEN l + 24
    ELSE IF g = "Weekly" THEN l + 7 * 24
    ELSE MonthLabel(l + 24)

\* the timestamps of the rows that have one
Stamps(rows) == { rows[i].timestamp : i \in 1..Len(rows) } \ {NaT}

\* the number of rows of a bucket; a row without timestamp is in none
InBucket(rows, g, l) ==
    Cardinality({ i \in 1..Len(rows) :
        rows[i].timestamp # NaT /\ BucketLabel(g, rows[i].timestamp) = l })

RECURSIVE BucketsFrom(_, _, _, _)
\* every bucket from l to last with its number of rows
BucketsFrom(rows, g, l, last) ==
    IF l > last THEN <<>>
    ELSE <<[date |-> l, plays |-> InBucket(rows, g, l)]>>
         \o BucketsFrom(rows, g, NextLabel(g, l), last)

RECURSIVE BucketsOf(_, _, _)
\* the buckets labelled in ls, in ascending order, with their numbers of rows
BucketsOf(rows, g, ls) ==
    IF ls = {} THEN <<>>
    ELSE <<[date |-> MinOf(ls), plays |-> InBucket(rows, g, MinOf(ls))]>>
         \o BucketsOf(rows, g, ls \ {MinOf(ls)})

\* the buckets a group-by forms when the Grouper is one key among others:
\* only the buckets that hold a row
ObservedBucketCounts(rows, g) ==
    BucketsOf(rows, g, { BucketLabel(g, t) : t \in Stamps(rows) })

\* time_df as a group-by on the rows' own buckets would give it
TimeBucketCountsOmitEmpty(rows, g) == ObservedBucketCounts(rows, g)

\* time_df: groupby(pd.Grouper(key='timestamp', freq=f)).size() bins the
\* whole span of the timestamps, so a bucket without rows has plays 0
TimeBucketCounts(rows, g) ==
    IF Stamps(rows) = {} THEN <<>>
    ELSE BucketsFrom(rows, g, BucketLabel(g, MinOf(Stamps(rows))),
                     BucketLabel(g, MaxOf(Stamps(rows))))

RECURSIVE TagArtist(_, _)
\* the rows of artist_time_df for one artist
TagArtist(a, buckets) ==
    IF buckets = <<>> THEN <<>>
    ELSE <<[artist |-> a, timestamp |-> Head(buckets).date, plays |-> Head(buckets).plays]>>
         \o TagArtist(a, Tail(buckets))

RECURSIVE ArtistTimeFrom(_, _, _)
ArtistTimeFrom(rows, g, artists) ==
    IF artists = <<>> THEN <<>>
    ELSE TagArtist(Head(artists),
                   ObservedBucketCounts(
                       SelectSeqP(rows, { i \in 1..Len(rows) : rows[i].artist = Head(artists) }),
                       g))
         \o ArtistTimeFrom(rows, g, Tail(artists))

\* artist_time_df: groupby(['artist', pd.Grouper(...)]).size() holds the
\* (artist, bucket) pairs that occur, by artist and then by bucket
ArtistTimeCounts(rows, g) ==
    ArtistTimeFrom(rows, g, SortedStrings({ rows[i].artist : i \in 1..Len(rows) }))

\* Sun 2024-01-28 10:00, Wed 2024-01-31 10:00, Fri 2024-02-02 05:00,
\* Tue 2024-02-13 09:00, and a row without timestamp
TimeRows ==
    { [timestamp |-> Iso(658), artist |-> ArtistB, song |-> SongY, artwork_large |-> Art1],
      [timestamp |-> Iso(730), artist |-> ArtistA, song |-> SongX, artwork_large |-> Art1],
      [timestamp |-> Iso(773), artist |-> ArtistB, song |-> SongY, artwork_large |-> Art1],
      [timestamp |-> Iso(1041), artist |-> ArtistA, song |-> SongX, artwork_large |-> Art1],
      [timestamp |-> EmptyCell, artist |-> ArtistB, song |-> SongY, artwork_large |-> Art1] }

TimeSources == { WithPickIds(rows) : rows \in SeqsUpTo(TimeRows, MaxRows) }

\* wmradio after its first run and a choice of the date range: the range
\* spans dates of the log, or holds one date only
InitTime ==
    /\ app = Wmradio
    /\ csv \in TimeSources
    /\ phase = "ready"
    /\ df = WmradioClean(WmradioLoadData(csv))
    /\ Dates(df) # {}
    /\ loaded_count = Len(csv)
    /\ date_range \in { r \in DateRanges(df) :
            /\ \A k \in 1..Len(r) : r[k] \in Dates(df)
            /\ Len(r) = 2 => r[1] <= r[2]
            /\ Len(r) = 1 => r[1] = MinOf(Dates(df)) }
    /\ selected_artist = AllOption
    /\ selected_song = AllOption
    /\ filter_type = "Artist"
    /\ selected_items = {}
    /\ filtered_df = FilteredDf(df, date_range, selected_artist, selected_song)
    /\ NoCharts

\* the "Trends Over Time" tab: the radio's granularity, time_df, the artists
\* offered for comparison and, if any is selected, artist_time_df
TrendsTab ==
    /\ phase = "ready"
    /\ \E g \in {"Daily", "Weekly", "Monthly"} :
       \E o \in SortHead(GroupBySize(filtered_df, ArtistKeys), TrendHeadFive) :
       \E sel \in SUBSET { o[j].key[1] : j \in 1..Len(o) } :
          /\ time_granularity' = g
          /\ time_df' = TimeBucketCounts(filtered_df, g)
          /\ selected_trend_artists' = sel
          /\ artist_time_df' =
                IF sel = {} THEN <<>>
                ELSE ArtistTimeCounts(
                         SelectSeqP(filtered_df, { i \in 1..Len(filtered_df) :
                             filtered_df[i].artist \in sel }), g)
    /\ UNCHANGED <<sessionVars, topVars, pageVars, exportVars>>

NextTime == TrendsTab

SpecTime == InitTime /\ [][NextTime]_vars

(***************************************************************************)
(* Recent Plays: the pagination of wmradiostreamlitv2claude.py             *)
(***************************************************************************)
MaxPlays == 25
\* st.slider("Plays per page", 5, 50, 10)
SliderMin == 5
SliderMax == 50
SliderDefault == 10

\* max(1, len(recent_plays) // plays_per_page): the pages that are full
TotalPagesFloor(c, s) == IF c \div s >= 1 THEN c \div s ELSE 1

\* total_pages = max(1, (len(recent_plays) + plays_per_page - 1) // plays_per_page)
TotalPages(c, s) == IF (c + s - 1) \div s >= 1 THEN (c + s - 1) \div s ELSE 1

\* a slice that starts one element late
PageSliceFromNext(sq, s, p) ==
    SubSeq(sq, p * s + 2, IF p * s + s < Len(sq) THEN p * s + s ELSE Len(sq))

\* start_idx = page * plays_per_page; end_idx = min(start_idx + plays_per_page,
\* len(recent_plays)); recent_plays.iloc[start_idx:end_idx]
PageSlice(sq, s, p) ==
    SubSeq(sq, p * s + 1, IF p * s + s < Len(sq) THEN p * s + s ELSE Len(sq))

\* current_plays is assigned only when recent_plays has rows
CurrentPlays(sq, s, p) == IF Len(sq) > 0 THEN PageSlice(sq, s, p) ELSE <<>>

\* the tab as its first run leaves it: the slider at its default, the first
\* page shown. The pagination reads the length of recent_plays and slices it
\* by position only, so a row is represented by its position.
InitPage ==
    /\ app = Wmradio
    /\ csv = <<>>
    /\ phase = "ready"
    /\ df = <<>>
    /\ loaded_count = 0
    /\ date_range = <<>>
    /\ selected_artist = AllOption
    /\ selected_song = AllOption
    /\ filter_type = "Artist"
    /\ selected_items = {}
    /\ filtered_df = <<>>
    /\ chart = "none" /\ top_n = 0 /\ top = <<>>
    /\ time_granularity = "none" /\ time_df = <<>>
    /\ selected_trend_artists = {} /\ artist_time_df = <<>>
    /\ recent_plays \in { [i \in 1..c |-> i] : c \in 0..MaxPlays }
    /\ recent_limit = 0
    /\ download = [header |-> <<>>, rows |-> <<>>]
    /\ plays_per_page = SliderDefault
    /\ total_pages = TotalPages(Len(recent_plays), plays_per_page)
    /\ page = 0
    /\ current_plays = CurrentPlays(recent_plays, plays_per_page, page)

\* the user moves the slider: the script reruns; the page number_input keeps
\* its value while its max_value, total_pages, is the same, and is a new
\* widget at value 1 otherwise; with one page there is no number_input
SetPlaysPerPage ==
    /\ phase = "ready"
    /\ \E s \in SliderMin..SliderMax :
          /\ s # plays_per_page
          /\ plays_per_page' = s
          /\ total_pages' = TotalPages(Len(recent_plays), s)
          /\ page' = IF total_pages' > 1 /\ total_pages' = total_pages THEN page ELSE 0
          /\ current_plays' = CurrentPlays(recent_plays, s, page')
    /\ UNCHANGED <<sessionVars, topVars, timeVars, exportVars, recent_plays, recent_limit>>

\* the user enters a page number between 1 and total_pages
SetPage ==
    /\ phase = "ready"
    /\ total_pages > 1
    /\ \E number \in 1..total_pages :
          /\ number - 1 # page
          /\ page' = number - 1
          /\ current_plays' = CurrentPlays(recent_plays, plays_per_page, page')
    /\ UNCHANGED <<sessionVars, topVars, timeVars, exportVars, recent_plays, recent_limit,
                   plays_per_page, total_pages>>

NextPage == SetPlaysPerPage \/ SetPage

SpecPage == InitPage /\ [][NextPage]_vars

(***************************************************************************)
(* Claims about TopN, checked under SpecTop                                *)
(***************************************************************************)
RECURSIVE SumPlays(_)
SumPlays(sq) == IF sq = <<>> THEN 0 ELSE Head(sq).plays + SumPlays(Tail(sq))

\* the key columns of the chart computed last
ChartKeys == IF chart = "top_artists" THEN ArtistKeys ELSE SongKeys(app)
\* every distinct combination of the key columns among the rows shown
ChartCombos == { KeyOf(filtered_df[i], ChartKeys) : i \in 1..Len(filtered_df) }
\* the number of rows with that combination
RowsOf(k) == Cardinality({ i \in 1..Len(filtered_df) : KeyOf(filtered_df[i], ChartKeys) = k })
\* the position of the first row with that combination
FirstRowOf(k) ==
    CHOOSE i \in 1..Len(filtered_df) :
        /\ KeyOf(filtered_df[i], ChartKeys) = k
        /\ \A j \in 1..(i - 1) : KeyOf(filtered_df[j], ChartKeys) # k
ReturnedKeys == { top[j].key : j \in 1..Len(top) }

\* C4: TopN returns at most n (group-key, count) pairs, each count the number
\* of rows of its group, in non-increasing order of count, summing to at most
\* the number of rows, and no group left out has more rows than a group returned.
C4_TopNLargest ==
    chart # "none" =>
        /\ Len(top) <= top_n
        /\ \A j \in 1..Len(top) : top[j].plays = RowsOf(top[j].key)
        /\ \A j \in 1..(Len(top) - 1) : top[j].plays >= top[j + 1].plays
        /\ SumPlays(top) <= Len(filtered_df)
        /\ \A k \in ChartCombos \ ReturnedKeys :
              \A j \in 1..Len(top) : RowsOf(k) <= top[j].plays

\* C5: groups with the same count come in first-encountered order, and of
\* two groups with the same count the one met first is the one returned.
C5_TiesFirstEncountered ==
    chart # "none" =>
        /\ \A i, j \in 1..Len(top) :
              (i < j /\ top[i].plays = top[j].plays) =>
                  FirstRowOf(top[i].key) < FirstRowOf(top[j].key)
        /\ \A k \in GroupKeys(filtered_df, ChartKeys) \ ReturnedKeys :
              \A j \in 1..Len(top) :
                  top[j].plays = RowsOf(k) => FirstRowOf(top[j].key) < FirstRowOf(k)

(***************************************************************************)
(* Claims about TimeBucketCounts, checked under SpecTime                   *)
(***************************************************************************)
\* the positions of the rows of filtered_df that have a timestamp
Stamped == { i \in 1..Len(filtered_df) : filtered_df[i].timestamp # NaT }

\* C6: the counts of the buckets of time_df sum to the number of rows of the
\* log they are computed from: every row is counted once, none is dropped.
C6_BucketsCountEveryRow ==
    time_granularity # "none" => SumPlays(time_df) = Len(filtered_df)

\* C7 as stated: time_df holds only buckets with at least one row.
C7_OnlyNonEmptyBuckets ==
    time_granularity # "none" =>
        \A j \in 1..Len(time_df) : time_df[j].plays >= 1

\* C7, amended: time_df holds every bucket from the one of the first
\* timestamp to the one of the last, in ascending order, each with the number
\* of rows it holds, which is 0 for a bucket without plays; only
\* artist_time_df holds nothing but buckets with at least one row.
C7_SpanZeroFilled ==
    time_granularity # "none" =>
        /\ { time_df[j].date : j \in 1..Len(time_df) } =
              { BucketLabel(time_granularity, d * 24) :
                  d \in { d \in 0..365 : \E i, k \in Stamped :
                              /\ DateOf(filtered_df[i].timestamp) <= d
                              /\ d <= DateOf(filtered_df[k].timestamp) } }
        /\ \A j \in 1..(Len(time_df) - 1) : time_df[j].date < time_df[j + 1].date
        /\ \A j \in 1..Len(time_df) :
              time_df[j].plays =
                  Cardinality({ i \in Stamped :
                      BucketLabel(time_granularity, filtered_df[i].timestamp) = time_df[j].date })
        /\ \A j \in 1..Len(artist_time_df) : artist_time_df[j].plays >= 1

\* a bucket between the first and the last one that holds no row and is
\* reported with count 0
C7_Witness ==
    /\ time_granularity # "none"
    /\ \E j \in 2..(Len(time_df) - 1) : time_df[j].plays = 0

\* the start of the interval of a timestamp: its date, the Monday of its
\* week, the first day of its month
IntervalStart(g, ts) ==
    IF g = "Daily" THEN DateOf(ts) * 24
    ELSE IF g = "Weekly" THEN (DateOf(ts) - (DateOf(ts) % 7)) * 24
    ELSE MonthStarts[MonthOfDate(DateOf(ts))] * 24

\* C8 as stated: a bucket is labelled with the start of its interval, so its
\* count is the number of rows whose interval starts at the label, and every
\* row's timestamp is greater than or equal to the label of its bucket.
C8_LabelledByIntervalStart ==
    time_granularity # "none" =>
        \A j \in 1..Len(time_df) :
            /\ time_df[j].plays =
                   Cardinality({ i \in Stamped :
                       IntervalStart(time_granularity, filtered_df[i].timestamp) = time_df[j].date })
            /\ \A i \in Stamped :
                   BucketLabel(time_granularity, filtered_df[i].timestamp) = time_df[j].date
                       => filtered_df[i].timestamp >= time_df[j].date

\* C8, amended: a daily bucket is labelled with its date, a weekly bucket
\* with the Sunday that ends its Monday-to-Sunday week, a monthly bucket with
\* the last day of its month, each at midnight; a bucket counts the rows of
\* its day, week or month, so a row's date is never after the label's date.
C8_LabelledByIntervalEnd ==
    time_granularity # "none" =>
        \A j \in 1..Len(time_df) :
            LET l  == time_df[j].date
                ld == time_df[j].date \div 24
            IN  /\ l % 24 = 0
                /\ time_granularity = "Daily" =>
                       time_df[j].plays = Cardinality({ i \in Stamped :
                           DateOf(filtered_df[i].timestamp) = ld })
                /\ time_granularity = "Weekly" =>
                       /\ ld % 7 = 6
                       /\ time_df[j].plays = Cardinality({ i \in Stamped :
                              /\ ld - 6 <= DateOf(filtered_df[i].timestamp)
                              /\ DateOf(filtered_df[i].timestamp) <= ld })
                /\ time_granularity = "Monthly" =>
                       /\ ld + 1 = MonthStarts[MonthOfDate(ld)] + MonthLengths[MonthOfDate(ld)]
                       /\ time_df[j].plays = Cardinality({ i \in Stamped :
                              MonthOfDate(DateOf(filtered_df[i].timestamp)) = MonthOfDate(ld) })

\* a weekly bucket that counts a row played before the day of its label
C8_Witness ==
    /\ time_granularity = "Weekly"
    /\ \E j \in 1..Len(time_df) : \E i \in Stamped :
          /\ time_df[j].plays >= 1
          /\ time_df[j].date \div 24 - 6 <= DateOf(filtered_df[i].timestamp)
          /\ filtered_df[i].timestamp < time_df[j].date

(***************************************************************************)
(* Claims about the pagination, checked under SpecPage                     *)
(***************************************************************************)
\* the least k with k * s >= c
CeilDiv(c, s) == CHOOSE k \in 0..c : k * s >= c /\ (k - 1) * s < c

RECURSIVE Concat(_)
Concat(pages) == IF pages = <<>> THEN <<>> ELSE Head(pages) \o Concat(Tail(pages))

\* the slice of every page, first to last
AllPages == [p \in 1..total_pages |-> PageSlice(recent_plays, plays_per_page, p - 1)]

\* C9: total_pages is max(1, ceil(len / page size)): 1 for no plays; 3 for 25
\* plays by 10, whose page 3 (page = 2 internally) is the plays 21 to 25.
C9_TotalPagesIsCeil ==
    plays_per_page # 0 =>
        /\ total_pages = IF CeilDiv(Len(recent_plays), plays_per_page) >= 1
                         THEN CeilDiv(Len(recent_plays), plays_per_page) ELSE 1
        /\ Len(recent_plays) = 0 => total_pages = 1
        /\ (Len(recent_plays) = 25 /\ plays_per_page = 10) =>
              /\ total_pages = 3
              /\ page = 2 => current_plays = SubSeq(recent_plays, 21, 25)

\* 25 plays, 10 per page, the third page shown
C9_Witness ==
    /\ Len(recent_plays) = 25
    /\ plays_per_page = 10
    /\ total_pages = 3
    /\ page = 2
    /\ current_plays = <<21, 22, 23, 24, 25>>

\* C10: the slices of the pages 1..total_pages, concatenated in order, are
\* recent_plays; every page but the last holds plays_per_page plays; the page
\* shown is the slice of its number.
C10_PagesReconstruct ==
    plays_per_page # 0 =>
        /\ Concat(AllPages) = recent_plays
        /\ \A p \in 1..(total_pages - 1) : Len(AllPages[p]) = plays_per_page
        /\ page \in 0..(total_pages - 1)
        /\ current_plays = AllPages[page + 1]
        /\ \A k \in 1..Len(current_plays) :
              current_plays[k] = recent_plays[page * plays_per_page + k]

\* several pages, the last one short, and the last one shown
C10_Witness ==
    /\ total_pages >= 2
    /\ Len(recent_plays) % plays_per_page # 0
    /\ page = total_pages - 1
    /\ Len(current_plays) = Len(recent_plays) % plays_per_page

\* C11: a page index beyond total_pages is clamped to the last valid page:
\* when a rerun leaves fewer pages than the number of the page shown, the
\* page shown next is the last one, and its slice lies inside recent_plays.
C11_ClampsToLastPage ==
    [][ (plays_per_page # 0 /\ page + 1 > total_pages') =>
            /\ page' = total_pages' - 1
            /\ current_plays' = PageSlice(recent_plays', plays_per_page', total_pages' - 1) ]_vars

(***************************************************************************)
(* Recent plays: sort_values('timestamp', ascending=False)                 *)
(***************************************************************************)
\* .head(10) of gempro's recent_plays
RecentHeadTen == 10

\* the orders sort_values('timestamp', ascending=False) can leave the rows
\* in: later timestamps first, rows without timestamp last (na_position is
\* 'last') in their original order; the default sort kind is not stable, so
\* rows with equal timestamps come in any order
SortTimestampDesc(rows) ==
    { [i \in 1..Len(rows) |-> rows[f[i]]] : f \in
        { f \in Permutations(1..Len(rows)) :
            \A i, j \in 1..Len(rows) :
                i < j =>
                    IF rows[f[j]].timestamp = NaT
                    THEN rows[f[i]].timestamp # NaT \/ f[i] < f[j]
                    ELSE /\ rows[f[i]].timestamp # NaT
                         /\ rows[f[i]].timestamp >= rows[f[j]].timestamp } }

\* dt.strftime("%Y-%m-%d %H:%M:%S"): the text of a timestamp, a missing
\* value for NaT
Strftime(ts) == IF ts = NaT THEN NaN ELSE <<"text", ts>>

\* the columns of the table shown: gempro selects four columns and formats
\* the timestamp, the timeline dashboards select three, wmradio keeps all
RecentTable(ap, rows) ==
    IF ap = Gempro
    THEN [i \in 1..Len(rows) |->
            [timestamp |-> Strftime(rows[i].timestamp), artist |-> rows[i].artist,
             song |-> rows[i].song, artwork_large |-> rows[i].artwork_large]]
    ELSE IF ap = Wmradio THEN rows
    ELSE [i \in 1..Len(rows) |->
            [timestamp |-> rows[i].timestamp, artist |-> rows[i].artist,
             song |-> rows[i].song]]

\* the limits the model applies: gempro's own 10 and smaller ones, so that
\* the cut falls inside a log of few rows; 0 where the script has no limit
RecentLimits(ap) == IF ap = Gempro THEN (1..MaxTopN) \cup {RecentHeadTen} ELSE {0}

RecentRows ==
    { [timestamp |-> t, artist |-> as[1], song |-> as[2], artwork_large |-> Art1] :
        t \in {Iso(10), Iso(34), EmptyCell},
        as \in {<<ArtistA, SongX>>, <<ArtistA, SongY>>, <<ArtistB, SongX>>} }

RecentSources == { WithPickIds(rows) : rows \in SeqsUpTo(RecentRows, MaxRows) }

\* a dashboard as its first run leaves it
InitRecent ==
    /\ app \in {Gempro, Wmradio, Strealit}
    /\ csv \in RecentSources
    /\ csv # <<>>
    /\ phase = "ready"
    /\ df = (IF app = Gempro THEN GemproLoadData(csv)
             ELSE IF app = Wmradio THEN WmradioClean(WmradioLoadData(csv))
             ELSE TimelineLoadData(csv))
    /\ app \in {Gempro, Wmradio} => Dates(df) # {}
    /\ loaded_count = (IF app = Wmradio THEN Len(csv) ELSE 0)
    /\ date_range = (IF app = Strealit THEN <<>>
                     ELSE <<MinOf(Dates(df)), MaxOf(Dates(df))>>)
    /\ selected_artist = AllOption
    /\ selected_song = AllOption
    /\ filter_type = "Artist"
    /\ selected_items = (IF app = Strealit THEN DefaultItems(df, "Artist") ELSE {})
    /\ filtered_df = (IF app = Strealit
                      THEN TimelineFilter(app, df, filter_type, selected_items)
                      ELSE FilteredDf(df, date_range, selected_artist, selected_song))
    /\ NoCharts

\* the table of recent plays; in wmradio the first page of it follows
RecentPlaysTab ==
    /\ phase = "ready"
    /\ \E n \in RecentLimits(app) :
       \E o \in SortTimestampDesc(filtered_df) :
          /\ recent_limit' = n
          /\ recent_plays' = RecentTable(app, IF n = 0 THEN o ELSE HeadN(o, n))
    /\ IF app = Wmradio
       THEN /\ plays_per_page' = SliderDefault
            /\ total_pages' = TotalPages(Len(recent_plays'), SliderDefault)
            /\ page' = 0
            /\ current_plays' = CurrentPlays(recent_plays', SliderDefault, 0)
       ELSE UNCHANGED <<plays_per_page, total_pages, page, current_plays>>
    /\ UNCHANGED <<sessionVars, topVars, timeVars, exportVars>>

NextRecent == RecentPlaysTab

SpecRecent == InitRecent /\ [][NextRecent]_vars

\* the rows by descending timestamp, rows with equal timestamps in their
\* original order, rows without timestamp last
StableRecent(rows) ==
    LET f == CHOOSE f \in Permutations(1..Len(rows)) :
                 \A i, j \in 1..Len(rows) :
                     i < j => \/ rows[f[i]].timestamp > rows[f[j]].timestamp
                              \/ /\ rows[f[i]].timestamp = rows[f[j]].timestamp
                                 /\ f[i] < f[j]
    IN  [i \in 1..Len(rows) |-> rows[f[i]]]

\* C12: recent_plays holds the rows by descending timestamp, rows with
\* equal timestamps in the order they have in the log (a stable sort), and
\* with a limit the first `limit` rows of that order.
C12_RecentPlaysStable ==
    recent_plays # <<>> =>
        recent_plays =
            RecentTable(app, IF recent_limit = 0 THEN StableRecent(filtered_df)
                             ELSE HeadN(StableRecent(filtered_df), recent_limit))

(***************************************************************************)
(* Claims about Load on a timestamp that is no date, checked under Spec    *)
(***************************************************************************)
\* the log a dashboard works on after loading src
LoadedLog(ap, src) ==
    IF ap = Gempro THEN GemproLoadData(src)
    ELSE IF ap = Wmradio THEN WmradioClean(WmradioLoadData(src))
    ELSE TimelineLoadData(src)

\* the rows of the source whose timestamp can be interpreted
Interpretable(src) ==
    SelectSeqP(src, { i \in 1..Len(src) : src[i].timestamp.kind # "bad" })

\* C13: a source with a row whose timestamp cannot be interpreted is loaded
\* all the same: the dashboard runs on the log of every other row.
C13_BadTimestampRowDropped ==
    (/\ phase # "start"
     /\ ParseFails(csv)
     /\ Dates(LoadedLog(app, Interpretable(csv))) # {}) =>
        /\ phase = "ready"
        /\ df = LoadedLog(app, Interpretable(csv))

(***************************************************************************)
(* Claims about the log after Load, checked under Spec                     *)
(***************************************************************************)
\* C14: no operation after Load changes the log or the subset it is given:
\* the log stays the one Load returned, and the filtered subset shown holds
\* rows of the log, with the log's columns and values, in the log's order.
C14_InputsNotMutated ==
    phase = "ready" =>
        /\ df = LoadedLog(app, csv)
        /\ \E keep \in SUBSET (1..Len(df)) : filtered_df = SelectSeqP(df, keep)

\* C15: on a log that loads to zero rows no operation reaches an error: the
\* dashboard shows empty results, or its "No data to display" message.
C15_EmptyLogNoError ==
    (/\ phase # "start"
     /\ ~ParseFails(csv)
     /\ LoadedLog(app, csv) = <<>>) =>
        /\ phase \in {"ready", "nodata"}
        /\ filtered_df = <<>>

(***************************************************************************)
(* Download Filtered Data: filtered_df.to_csv(index=False)                 *)
(***************************************************************************)
\* the columns of the CSV source, and the columns load_data derives
InputColumns == <<"pick_id", "timestamp", "artist", "song", "artwork_large">>
DerivedColumns == <<"date", "hour", "day_of_week", "month", "year">>

\* to_csv writes a timestamp as ISO text and NaT as an empty cell
TimestampCell(ts) == IF ts = NaT THEN EmptyCell ELSE Iso(ts)

\* to_csv(index=False): a header with every column of the frame, then one
\* line per row; a missing text is an empty cell, which reads back as missing
ToCsv(rows) ==
    [header |-> InputColumns \o DerivedColumns,
     rows |-> [i \in 1..Len(rows) |->
                 [rows[i] EXCEPT !.timestamp = TimestampCell(@)]]]

ExportRows ==
    { [timestamp |-> Iso(10), artist |-> ArtistA, song |-> SongX, artwork_large |-> Art1],
      [timestamp |-> Iso(57), artist |-> ArtistB, song |-> SongY, artwork_large |-> NaN],
      [timestamp |-> EmptyCell, artist |-> ArtistB, song |-> SongX, artwork_large |-> Art1],
      [timestamp |-> Iso(57), artist |-> NaN, song |-> NaN, artwork_large |-> Art1],
      [timestamp |-> Iso(10), artist |-> ArtistA, song |-> PromoMarker, artwork_large |-> Art1] }

ExportSources == { WithPickIds(rows) : rows \in SeqsUpTo(ExportRows, MaxRows) }

\* wmradio after its first run and a choice of date range and artist
InitExport ==
    /\ app = Wmradio
    /\ csv \in ExportSources
    /\ phase = "ready"
    /\ df = WmradioClean(WmradioLoadData(csv))
    /\ Dates(df) # {}
    /\ loaded_count = Len(csv)
    /\ date_range \in { <<MinOf(Dates(df)), MaxOf(Dates(df))>>, <<MinOf(Dates(df))>>,
                         <<MaxOf(Dates(df)), MaxOf(Dates(df))>> }
    /\ selected_artist \in {AllOption} \cup ArtistOptions(app, df, date_range)
    /\ selected_song = AllOption
    /\ filter_type = "Artist"
    /\ selected_items = {}
    /\ filtered_df = FilteredDf(df, date_range, selected_artist, selected_song)
    /\ NoCharts

\* the user presses "Download Filtered Data": the script reruns with the
\* same widget values and makes the CSV of filtered_df
DownloadFilteredData ==
    /\ phase = "ready"
    /\ download' = ToCsv(filtered_df)
    /\ UNCHANGED <<sessionVars, topVars, timeVars, pageVars>>

NextExport == DownloadFilteredData

SpecExport == InitExport /\ [][NextExport]_vars

\* C16: the exported CSV has exactly the columns of the input schema and
\* none of the derived ones, and loading it again gives the rows exported,
\* as many and with the same values.
C16_ExportRoundTrips ==
    download.header # <<>> =>
        /\ download.header = InputColumns
        /\ LoadedLog(app, download.rows) = filtered_df

(***************************************************************************)
(* Claims about wmradio's cascading sidebar filters, checked under Spec    *)
(***************************************************************************)
\* the rows of df the date range selects: all of them while date_input
\* holds one date only
InDateRange ==
    { i \in 1..Len(df) :
        Len(date_range) = 2 =>
            /\ df[i].date # NaT
            /\ date_range[1] <= df[i].date
            /\ df[i].date <= date_range[2] }

\* C17: in wmradio an artist picked from the offered artists and a song
\* picked from the offered songs leave a non-empty filtered set: filtered_df
\* is empty only when the date range selects no row, and it holds rows of
\* the artist and of the song selected.
C17_CascadingOptionsNonEmpty ==
    (app = Wmradio /\ phase = "ready") =>
        /\ filtered_df = <<>> => InDateRange = {}
        /\ selected_artist # AllOption =>
              /\ \E i \in InDateRange : df[i].artist = selected_artist
              /\ \A j \in 1..Len(filtered_df) : filtered_df[j].artist = selected_artist
        /\ selected_song # AllOption =>
              /\ filtered_df # <<>>
              /\ \A j \in 1..Len(filtered_df) : filtered_df[j].song = selected_song

\* a date range that leaves rows of the log out, an artist and a song
\* selected, and a filtered set that is not empty and smaller than the range
C17_Witness ==
    /\ app = Wmradio /\ phase = "ready"
    /\ Len(date_range) = 2
    /\ Cardinality(InDateRange) < Len(df)
    /\ selected_artist # AllOption
    /\ selected_song # AllOption
    /\ filtered_df # <<>>
    /\ Len(filtered_df) < Cardinality(InDateRange)

====
